---- MODULE Spec2Model ----
(***************************************************************************)
(* Model of simulate_pid_room (src/appy.py, lines 160-220): a discrete PID *)
(* controller driving a first-order thermal plant by forward Euler.        *)
(*                                                                         *)
(* The function computes on numpy float64 values.  The model keeps that    *)
(* arithmetic: a number is an IEEE-754 binary64 datum (finite, infinite or *)
(* NaN) and +, -, *, / round to nearest, ties to even, overflow to an      *)
(* infinity and divide by zero without raising, as numpy scalars do.  The  *)
(* 53-bit significands do not fit TLC's integers, so a significand is a    *)
(* natural number held as a sequence of 15-bit limbs, least significant    *)
(* first.  The sign of a zero is not kept: no operation of the function    *)
(* can tell +0.0 from -0.0 (its only divisors are dt, tau and 100.0).      *)
(***************************************************************************)
EXTENDS Integers, Sequences, FiniteSets, TLC

Max(a, b) == IF a >= b THEN a ELSE b

Min(a, b) == IF a <= b THEN a ELSE b

(***************************************************************************)
(* Natural numbers of any size: sequences of limbs in 0 .. Base-1, least   *)
(* significant first, no leading (high) zero limb; zero is << >>.          *)
(***************************************************************************)
Base == 2^15

Limb(a, i) == IF i <= Len(a) THEN a[i] ELSE 0

RECURSIVE BNorm(_)
BNorm(a) ==
  IF a = << >> THEN a
  ELSE IF a[Len(a)] = 0 THEN BNorm(SubSeq(a, 1, Len(a) - 1))
  ELSE a

BFromInt(n) ==
  BNorm(<< n % Base, (n \div Base) % Base, n \div (Base * Base) >>)

RECURSIVE BAddFrom(_, _, _, _)
BAddFrom(a, b, i, c) ==
  IF i > Len(a) /\ i > Len(b)
  THEN IF c = 0 THEN << >> ELSE << c >>
  ELSE LET s == Limb(a, i) + Limb(b, i) + c
       IN  << s % Base >> \o BAddFrom(a, b, i + 1, s \div Base)

BAdd(a, b) == BAddFrom(a, b, 1, 0)

RECURSIVE BSubFrom(_, _, _, _)
BSubFrom(a, b, i, c) ==
  IF i > Len(a) THEN << >>
  ELSE LET s == a[i] - Limb(b, i) - c
       IN  IF s < 0
           THEN << s + Base >> \o BSubFrom(a, b, i + 1, 1)
           ELSE << s >> \o BSubFrom(a, b, i + 1, 0)

\* a - b, for a >= b
BSub(a, b) == BNorm(BSubFrom(a, b, 1, 0))

RECURSIVE BCmpFrom(_, _, _)
BCmpFrom(a, b, i) ==
  IF i = 0 THEN 0
  ELSE IF a[i] < b[i] THEN -1
  ELSE IF a[i] > b[i] THEN 1
  ELSE BCmpFrom(a, b, i - 1)

\* -1, 0 or 1 as a < b, a = b, a > b
BCmp(a, b) ==
  IF Len(a) < Len(b) THEN -1
  ELSE IF Len(a) > Len(b) THEN 1
  ELSE BCmpFrom(a, b, Len(a))

RECURSIVE BMulSmallFrom(_, _, _, _)
BMulSmallFrom(a, d, i, c) ==
  IF i > Len(a)
  THEN IF c = 0 THEN << >> ELSE << c >>
  ELSE LET s == a[i] * d + c
       IN  << s % Base >> \o BMulSmallFrom(a, d, i + 1, s \div Base)

\* a * d, for 0 <= d < Base
BMulSmall(a, d) == IF d = 0 THEN << >> ELSE BMulSmallFrom(a, d, 1, 0)

BShiftLimbs(a, n) == IF a = << >> THEN a ELSE [i \in 1 .. n |-> 0] \o a

RECURSIVE BMul(_, _)
BMul(a, b) ==
  IF b = << >> THEN << >>
  ELSE BAdd(BMulSmall(a, b[1]), BShiftLimbs(BMul(a, Tail(b)), 1))

\* a * 2^n
BShl(a, n) == BShiftLimbs(BMulSmall(a, 2^(n % 15)), n \div 15)

\* a \div 2^n
BShr(a, n) ==
  LET w == n \div 15
      b == n % 15
      rest == IF w >= Len(a) THEN << >> ELSE SubSeq(a, w + 1, Len(a))
  IN  BNorm([i \in 1 .. Len(rest) |->
               (rest[i] \div 2^b) + (Limb(rest, i + 1) % 2^b) * 2^(15 - b)])

\* bit i of a, bit 0 the least significant
BBit(a, i) == (Limb(a, (i \div 15) + 1) \div 2^(i % 15)) % 2

\* whether the n low bits of a are all zero
BLowZero(a, n) ==
  /\ \A i \in 1 .. Min(n \div 15, Len(a)) : a[i] = 0
  /\ Limb(a, (n \div 15) + 1) % 2^(n % 15) = 0

RECURSIVE BitLenSmall(_)
BitLenSmall(x) == IF x = 0 THEN 0 ELSE 1 + BitLenSmall(x \div 2)

BBitLen(a) ==
  IF a = << >> THEN 0 ELSE 15 * (Len(a) - 1) + BitLenSmall(a[Len(a)])

RECURSIVE TrailZerosSmall(_)
TrailZerosSmall(x) == IF x % 2 = 1 THEN 0 ELSE 1 + TrailZerosSmall(x \div 2)

RECURSIVE BTrailZerosFrom(_, _)
BTrailZerosFrom(a, i) ==
  IF a[i] = 0 THEN 15 + BTrailZerosFrom(a, i + 1) ELSE TrailZerosSmall(a[i])

\* the number of low zero bits of a, for a > 0
BTrailZeros(a) == BTrailZerosFrom(a, 1)

RECURSIVE BDivFix(_, _, _)
BDivFix(cur, b, d) ==
  IF BCmp(BMulSmall(b, d), cur) > 0 THEN BDivFix(cur, b, d - 1) ELSE d

\* Schoolbook division, one quotient limb for each limb i of a from the top;
\* r < b is the running remainder and the top limb of b is at least Base/2,
\* so that the limb guessed from the leading limbs is at most 2 too large
RECURSIVE BDivFrom(_, _, _, _)
BDivFrom(a, b, i, r) ==
  IF i = 0 THEN [q |-> << >>, r |-> r]
  ELSE LET cur  == BNorm(<< a[i] >> \o r)
           n    == Len(b)
           top  == Limb(cur, n + 1) * Base + Limb(cur, n)
           d    == BDivFix(cur, b, Min(top \div b[n], Base - 1))
           lo   == BDivFrom(a, b, i - 1, BSub(cur, BMulSmall(b, d)))
       IN  [q |-> lo.q \o << d >>, r |-> lo.r]

\* the quotient q of a by b, for b > 0, and whether the division is exact
BDivMod(a, b) ==
  LET s == 15 - BitLenSmall(b[Len(b)])
      d == BDivFrom(BShl(a, s), BShl(b, s), Len(BShl(a, s)), << >>)
  IN  [q |-> BNorm(d.q), exact |-> d.r = << >>]

(***************************************************************************)
(* binary64.  A datum is a record: kind "fin" with value                   *)
(* (-1)^sign * man * 2^exp, man odd (or zero, then sign = 0 and exp = 0),  *)
(* kind "inf" with its sign, or kind "nan".  One value, one record.        *)
(***************************************************************************)
MantBits == 53

MinExp == -1074

MaxExp == 1024

NaN == [kind |-> "nan", sign |-> 0, man |-> << >>, exp |-> 0]

Inf(s) == [kind |-> "inf", sign |-> s, man |-> << >>, exp |-> 0]

Zero == [kind |-> "fin", sign |-> 0, man |-> << >>, exp |-> 0]

IsNaN(x) == x.kind = "nan"

IsInf(x) == x.kind = "inf"

IsFinite(x) == x.kind = "fin"

IsZero(x) == x.kind = "fin" /\ x.man = << >>

\* the datum (-1)^s * m * 2^e of a significand of at most MantBits bits
Canon(s, m, e) ==
  IF m = << >> THEN Zero
  ELSE IF BBitLen(m) + e > MaxExp THEN Inf(s)
  ELSE LET z == BTrailZeros(m)
       IN  [kind |-> "fin", sign |-> s, man |-> BShr(m, z), exp |-> e + z]

\* the binary64 nearest to (-1)^s * (m * 2^e + a positive amount below 2^e
\* when sticky), ties to even; gradual underflow, overflow to an infinity
Round(s, m, e, sticky) ==
  LET e1 == Max(e + BBitLen(m) - MantBits, MinExp)
  IN  IF e1 <= e THEN Canon(s, m, e)
      ELSE LET r    == e1 - e
               q    == BShr(m, r)
               half == BBit(m, r - 1) = 1
               rest == sticky \/ ~BLowZero(m, r - 1)
               up   == half /\ (rest \/ BBit(q, 0) = 1)
           IN  Canon(s, IF up THEN BAdd(q, << 1 >>) ELSE q, e1)

\* a small integer n * 2^e as a datum
F(n, e) == IF n < 0 THEN Round(1, BFromInt(-n), e, FALSE)
           ELSE Round(0, BFromInt(n), e, FALSE)

FNeg(x) == IF IsNaN(x) \/ IsZero(x) THEN x ELSE [x EXCEPT !.sign = 1 - x.sign]

\* x + y for |x| so far above |y| that y only decides the rounding
FAddFar(x, y) ==
  LET p == Max(0, MantBits + 3 - BBitLen(x.man))
      m == BShl(x.man, p)
  IN  IF x.sign = y.sign THEN Round(x.sign, m, x.exp - p, TRUE)
      ELSE Round(x.sign, BSub(m, << 1 >>), x.exp - p, TRUE)

FAddNear(x, y) ==
  LET lo == Min(x.exp, y.exp)
      a  == BShl(x.man, x.exp - lo)
      b  == BShl(y.man, y.exp - lo)
      c  == BCmp(a, b)
  IN  IF x.sign = y.sign THEN Round(x.sign, BAdd(a, b), lo, FALSE)
      ELSE IF c = 0 THEN Zero
      ELSE IF c > 0 THEN Round(x.sign, BSub(a, b), lo, FALSE)
      ELSE Round(y.sign, BSub(b, a), lo, FALSE)

FAddFinite(x, y) ==
  LET tx == x.exp + BBitLen(x.man)
      ty == y.exp + BBitLen(y.man)
  IN  IF tx - ty > MantBits + 2 THEN FAddFar(x, y)
      ELSE IF ty - tx > MantBits + 2 THEN FAddFar(y, x)
      ELSE FAddNear(x, y)

\* x + y
FAdd(x, y) ==
  IF IsNaN(x) \/ IsNaN(y) THEN NaN
  ELSE IF IsInf(x) THEN (IF IsInf(y) /\ y.sign # x.sign THEN NaN ELSE x)
  ELSE IF IsInf(y) THEN y
  ELSE IF IsZero(x) THEN y
  ELSE IF IsZero(y) THEN x
  ELSE FAddFinite(x, y)

\* x - y
FSub(x, y) == FAdd(x, FNeg(y))

XorSign(x, y) == (x.sign + y.sign) % 2

\* x * y
FMul(x, y) ==
  IF IsNaN(x) \/ IsNaN(y) THEN NaN
  ELSE IF IsInf(x) \/ IsInf(y)
       THEN (IF IsZero(x) \/ IsZero(y) THEN NaN ELSE Inf(XorSign(x, y)))
  ELSE IF IsZero(x) \/ IsZero(y) THEN Zero
  ELSE Round(XorSign(x, y), BMul(x.man, y.man), x.exp + y.exp, FALSE)

FDivFinite(x, y) ==
  LET sh == Max(0, MantBits + 2 + BBitLen(y.man) - BBitLen(x.man))
      d  == BDivMod(BShl(x.man, sh), y.man)
  IN  Round(XorSign(x, y), d.q, x.exp - y.exp - sh, ~d.exact)

\* x / y: a zero divisor gives an infinity, or NaN for 0 / 0, and no error
FDiv(x, y) ==
  IF IsNaN(x) \/ IsNaN(y) THEN NaN
  ELSE IF IsInf(x) THEN (IF IsInf(y) THEN NaN ELSE Inf(XorSign(x, y)))
  ELSE IF IsInf(y) THEN Zero
  ELSE IF IsZero(y) THEN (IF IsZero(x) THEN NaN ELSE Inf(x.sign))
  ELSE IF IsZero(x) THEN Zero
  ELSE FDivFinite(x, y)

\* x < y; FALSE when either is NaN
FLess(x, y) ==
  IF IsNaN(x) \/ IsNaN(y) THEN FALSE
  ELSE LET d == FSub(x, y) IN
       IF IsInf(x) /\ IsInf(y) THEN x.sign > y.sign
       ELSE ~IsZero(d) /\ d.sign = 1

\* x <= y; FALSE when either is NaN
FLeq(x, y) == ~IsNaN(x) /\ ~IsNaN(y) /\ ~FLess(y, x)

\* the binary64 nearest to the decimal n / d, as the literal n/d is read
Dec(n, d) == FDiv(F(n, 0), F(d, 0))

(***************************************************************************)
(* simulate_pid_room.  args holds the ten parameters under their names;    *)
(* t, T, u, e are the four arrays, as sequences (array index i is element  *)
(* i + 1); integral, prev_error, error, derivative and u_raw are the       *)
(* locals of the same names; k is the loop index; pc is the position in    *)
(* the function body; raised is the exception that left the function and   *)
(* result the returned tuple, each "none" until there is one.              *)
(***************************************************************************)
VARIABLES args, pc, k, t, T, u, e, integral, prev_error, error, derivative,
          u_raw, raised, result

vars == << args, pc, k, t, T, u, e, integral, prev_error, error, derivative,
           u_raw, raised, result >>

\* a local that no assignment has bound yet
Unbound == [kind |-> "unbound", sign |-> 0, man |-> << >>, exp |-> 0]

\* the longest trace of the enumerated configurations
MaxSteps == 4

\* np.zeros(n)
Zeros(n) == [i \in 1 .. n |-> Zero]

\* a clip that forgets the upper limit
ClipNoUpper(x, lo, hi) ==
  IF IsNaN(x) THEN x ELSE IF FLess(x, lo) THEN lo ELSE x

\* a clip that forgets the lower limit
ClipNoLower(x, lo, hi) ==
  IF IsNaN(x) THEN x ELSE IF FLess(hi, x) THEN hi ELSE x

\* np.clip(x, lo, hi): NaN stays NaN
Clip(x, lo, hi) ==
  IF IsNaN(x) THEN x
  ELSE IF FLess(x, lo) THEN lo
  ELSE IF FLess(hi, x) THEN hi
  ELSE x

\* a loop that stops one index early
LoopBoundShort(n) == n - 2

\* line 190: range(n_steps - 1), the indices the loop visits are below this
LoopBound(n) == n - 1

\* conditional integration: the accumulator held while the proportional
\* term alone saturates the output
NextIntegralFrozen(integ, err) ==
  IF FLess(F(100, 0), FMul(args.Kp, err)) \/ FLess(FMul(args.Kp, err), Zero)
  THEN integ
  ELSE FAdd(integ, FMul(err, args.dt))

\* line 196: integral += error * dt
NextIntegral(integ, err) == FAdd(integ, FMul(err, args.dt))

\* a derivative taken after prev_error was overwritten
DerivativeBaseUpdated(err) == err

\* line 197 reads prev_error, which line 213 overwrites only afterwards
DerivativeBase(err) == prev_error

\* a plant driven by the raw PID output
DriveSignalRaw == u_raw

\* line 206: the control signal that drives the plant, the clipped u[k]
DriveSignal == u[k + 1]

\* time taken as index times step, with the index one behind
TimeStepIndex(tk) == FMul(F(k, 0), args.dt)

\* line 210: t[k] + dt
TimeStep(tk) == FAdd(tk, args.dt)

\* a last control signal left as allocated
LastControlUnfilled(uu, n) == uu[n]

\* line 218: u[-2], the control signal that is repeated
LastControl(uu, n) == uu[n - 1]

\* u_raw = Kp * error + Ki * integral + Kd * derivative
PidLaw(err, integ, deriv) ==
  FAdd(FAdd(FMul(args.Kp, err), FMul(args.Ki, integ)), FMul(args.Kd, deriv))

\* a heat loss with its sign lost
PlantRateNoMinus(Tk, uk) ==
  FAdd(FDiv(FSub(Tk, args.T_ambient), args.tau),
       FMul(args.k_heat, FDiv(uk, F(100, 0))))

\* dTdt = -(T[k] - T_ambient) / tau + k_heat * (u[k] / 100.0)
PlantRate(Tk, uk) ==
  FAdd(FDiv(FNeg(FSub(Tk, args.T_ambient)), args.tau),
       FMul(args.k_heat, FDiv(uk, F(100, 0))))

Config(Ta, Ts, Ti, ta, kh, g, d, n) ==
  [T_ambient |-> Ta, T_set |-> Ts, T_initial |-> Ti, tau |-> ta,
   k_heat |-> kh, Kp |-> g[1], Ki |-> g[2], Kd |-> g[3], dt |-> d,
   n_steps |-> n]

\* P only (the sliders' default), all three terms at their largest, I only
Gains ==
  { << F(3, -1), Zero, Zero >>,
    << F(5, 0), F(1, 0), F(2, 0) >>,
    << Zero, Dec(1, 10), Zero >> }

\* the sliders' defaults with a trace of 301 samples (t_max = 300, dt = 1)
DefaultRun ==
  Config(F(20, 0), F(22, 0), F(18, 0), F(60, 0), F(1, -1),
         << F(3, -1), Zero, Zero >>, F(1, 0), 301)

\* a plant so fast (tau = 2^-1000) that the temperature overflows
StiffRun ==
  Config(F(20, 0), F(22, 0), F(18, 0), F(1, -1000), F(1, -1),
         << Zero, Dec(1, 10), Zero >>, F(1, 0), MaxSteps + 1)

Configs ==
  { Config(Ta, F(22, 0), Ti, ta, F(1, -1), g, d, n) :
      Ta \in {Zero, F(20, 0), F(30, 0)}, Ti \in {Zero, F(18, 0), F(25, 0)},
      ta \in {Zero, Dec(3, 10), Dec(6, 10), F(60, 0)}, g \in Gains,
      d \in {Zero, Dec(3, 10), F(1, 0)}, n \in 1 .. MaxSteps }
  \cup {StiffRun}

\* the state at the call, for the configurations cs
Start(cs) ==
  /\ args \in cs
  /\ pc = "alloc"
  /\ k = 0
  /\ t = << >> /\ T = << >> /\ u = << >> /\ e = << >>
  /\ integral = Unbound /\ prev_error = Unbound /\ error = Unbound
  /\ derivative = Unbound /\ u_raw = Unbound
  /\ raised = "none"
  /\ result = "none"

Init == Start(Configs)

InitDefault == Start({DefaultRun})

\* lines 179-188: the arrays, the first sample, the controller state
Alloc ==
  /\ pc = "alloc"
  /\ t' = Zeros(args.n_steps)
  /\ T' = [Zeros(args.n_steps) EXCEPT ![1] = args.T_initial]
  /\ u' = Zeros(args.n_steps)
  /\ e' = [Zeros(args.n_steps) EXCEPT ![1] = FSub(args.T_set, args.T_initial)]
  /\ integral' = Zero
  /\ prev_error' = FSub(args.T_set, args.T_initial)
  /\ k' = 0
  /\ pc' = "for"
  /\ UNCHANGED << args, error, derivative, u_raw, raised, result >>

\* lines 190-203: the error, the PID law and the clipped control signal
Control ==
  /\ pc = "for"
  /\ k < LoopBound(args.n_steps)
  /\ LET err   == FSub(args.T_set, T[k + 1])
         integ == NextIntegral(integral, err)
         deriv == FDiv(FSub(err, DerivativeBase(err)), args.dt)
         raw   == PidLaw(err, integ, deriv)
     IN  /\ error' = err
         /\ e' = [e EXCEPT ![k + 1] = err]
         /\ integral' = integ
         /\ derivative' = deriv
         /\ u_raw' = raw
         /\ u' = [u EXCEPT ![k + 1] = Clip(raw, Zero, F(100, 0))]
  /\ pc' = "plant"
  /\ UNCHANGED << args, k, t, T, prev_error, raised, result >>

\* lines 206-210: forward Euler step of the room, and of the time
Plant ==
  /\ pc = "plant"
  /\ T' = [T EXCEPT ![k + 2] =
             FAdd(T[k + 1], FMul(PlantRate(T[k + 1], DriveSignal), args.dt))]
  /\ t' = [t EXCEPT ![k + 2] = TimeStep(t[k + 1])]
  /\ pc' = "next"
  /\ UNCHANGED << args, k, u, e, integral, prev_error, error, derivative,
                  u_raw, raised, result >>

\* line 213, and the loop index moving on
Advance ==
  /\ pc = "next"
  /\ prev_error' = error
  /\ k' = k + 1
  /\ pc' = "for"
  /\ UNCHANGED << args, t, T, u, e, integral, error, derivative, u_raw,
                  raised, result >>

\* line 216, once the loop is over: the error of the last sample
FillError ==
  /\ pc = "for"
  /\ k >= LoopBound(args.n_steps)
  /\ e' = [e EXCEPT ![args.n_steps] = FSub(args.T_set, T[args.n_steps])]
  /\ pc' = "fill"
  /\ UNCHANGED << args, k, t, T, u, integral, prev_error, error, derivative,
                  u_raw, raised, result >>

\* lines 218-220: the last control signal repeated, and the return
FillControl ==
  /\ pc = "fill"
  /\ args.n_steps >= 2
  /\ LET u1 == [u EXCEPT ![args.n_steps] = LastControl(u, args.n_steps)]
     IN  /\ u' = u1
         /\ result' = [t |-> t, T |-> T, u |-> u1, e |-> e]
  /\ pc' = "returned"
  /\ UNCHANGED << args, k, t, T, e, integral, prev_error, error, derivative,
                  u_raw, raised >>

\* line 218 with n_steps = 1: u[-2] of a one-element array raises IndexError
FillRaise ==
  /\ pc = "fill"
  /\ args.n_steps = 1
  /\ raised' = "IndexError"
  /\ pc' = "raised"
  /\ UNCHANGED << args, k, t, T, u, e, integral, prev_error, error,
                  derivative, u_raw, result >>

Next ==
  \/ Alloc
  \/ Control
  \/ Plant
  \/ Advance
  \/ FillError
  \/ FillControl
  \/ FillRaise

Spec == Init /\ [][Next]_vars

\* the steps of a call that returns
NextRun ==
  \/ Alloc
  \/ Control
  \/ Plant
  \/ Advance
  \/ FillError
  \/ FillControl

\* the run with the sliders' defaults, 301 samples long
SpecDefault == InitDefault /\ [][NextRun]_vars

(***************************************************************************)
(* The vocabulary of the properties.                                       *)
(***************************************************************************)
Hundred == F(100, 0)

FPos(x) == FLess(Zero, x)

\* a configuration the core accepts: finite numbers, tau > 0, k_heat > 0,
\* dt > 0, gains >= 0 and at least two samples
Valid ==
  /\ \A x \in {args.T_ambient, args.T_set, args.T_initial, args.tau,
                args.k_heat, args.Kp, args.Ki, args.Kd, args.dt} : IsFinite(x)
  /\ FPos(args.tau) /\ FPos(args.k_heat) /\ FPos(args.dt)
  /\ FLeq(Zero, args.Kp) /\ FLeq(Zero, args.Ki) /\ FLeq(Zero, args.Kd)
  /\ args.n_steps >= 2

\* the configurations the degenerate-rejection property names
Degenerate == IsZero(args.dt) \/ IsZero(args.tau) \/ args.n_steps = 1

InLoopBody == pc \in {"plant", "next"}

InDutyRange(x) == FLeq(Zero, x) /\ FLeq(x, Hundred)

\* the control signal of the current step was clipped
Clipped == InLoopBody /\ u[k + 1] # u_raw

(***************************************************************************)
(* C1.  A call with dt = 0, tau = 0 or n_steps = 1 never enters the loop   *)
(* body, ends with the error InvalidConfiguration and returns no trace.    *)
(* The function has no such check: this is the property it fails.          *)
(***************************************************************************)
C1_DegenerateRejected ==
  Degenerate =>
    /\ ~InLoopBody
    /\ pc # "returned" /\ result = "none"
    /\ pc = "raised" => raised = "InvalidConfiguration"

(***************************************************************************)
(* C2, as claimed.  For a valid configuration every recorded control       *)
(* signal lies in [0, 100].                                                *)
(***************************************************************************)
C2_SaturationAlways ==
  Valid => \A i \in 1 .. Len(u) : InDutyRange(u[i])

(***************************************************************************)
(* C2, amended.  For a valid configuration every recorded control signal   *)
(* lies in [0, 100] or is NaN, and the signal of a step is NaN exactly     *)
(* when its raw PID output is NaN: negative, too large and infinite raw    *)
(* outputs are all brought into the range.                                 *)
(***************************************************************************)
C2_SaturationUnlessNaN ==
  Valid =>
    /\ \A i \in 1 .. Len(u) : IsNaN(u[i]) \/ InDutyRange(u[i])
    /\ InLoopBody => (IsNaN(u[k + 1]) <=> IsNaN(u_raw))

\* a step whose raw output is negative and recorded as 0, after a first
\* step whose raw output was above the range and recorded as 100
C2_Witness ==
  /\ Valid /\ pc = "plant" /\ k >= 1
  /\ FLess(u_raw, Zero) /\ u[k + 1] = Zero
  /\ u[1] = Hundred /\ IsFinite(T[2]) /\ FLess(Hundred, FMul(args.Kp, e[1]))

(***************************************************************************)
(* C3.  In a returned trace the last control signal is the one before it   *)
(* and the last error is T_set minus the last temperature.                 *)
(***************************************************************************)
C3_FillPolicy ==
  pc = "returned" =>
    /\ result.u[args.n_steps] = result.u[args.n_steps - 1]
    /\ result.e[args.n_steps] = FSub(args.T_set, result.T[args.n_steps])

\* a returned trace whose repeated last signal is not what the PID law gives
\* for the last error
C3_Witness ==
  /\ pc = "returned" /\ Valid
  /\ result.u[args.n_steps] = result.u[args.n_steps - 1]
  /\ ~IsZero(result.u[args.n_steps])
  /\ LET err == result.e[args.n_steps]
     IN  result.u[args.n_steps] #
           Clip(PidLaw(err, FAdd(integral, FMul(err, args.dt)),
                       FDiv(FSub(err, prev_error), args.dt)), Zero, Hundred)

\* e[0] + ... + e[n-1], added left to right
RECURSIVE SumE(_)
SumE(n) == IF n = 0 THEN Zero ELSE FAdd(SumE(n - 1), e[n])

\* e[0]*dt + ... + e[n-1]*dt, added left to right
RECURSIVE SumEdt(_)
SumEdt(n) == IF n = 0 THEN Zero ELSE FAdd(SumEdt(n - 1), FMul(e[n], args.dt))

(***************************************************************************)
(* C4, as claimed.  After the iteration for index k has updated it, the    *)
(* accumulator equals dt * (e[0] + ... + e[k]).                            *)
(***************************************************************************)
C4_IntegralIsDtTimesSum ==
  InLoopBody => integral = FMul(args.dt, SumE(k + 1))

(***************************************************************************)
(* C4, amended.  The accumulator is the running sum of the products        *)
(* e[i] * dt of every step so far, each product and each partial sum       *)
(* rounded: no step is left out, clipped or not.                           *)
(***************************************************************************)
C4_IntegralIsRunningSum ==
  /\ InLoopBody => integral = SumEdt(k + 1)
  /\ pc \in {"for", "fill", "returned"} => integral = SumEdt(k)

\* a step after the first whose output is clipped while the error keeps
\* being accumulated
C4_Witness ==
  /\ Clipped /\ k >= 1 /\ Valid
  /\ u[1] # Zero /\ u[k + 1] = Hundred
  /\ FLess(Zero, error) /\ FLess(SumEdt(k), integral)

(***************************************************************************)
(* C5.  The four arrays have n_steps elements from their creation to the   *)
(* return, T[0] = T_initial and t[0] = 0, the loop body runs for the       *)
(* indices 0 .. n_steps-2 only and has run n_steps-1 times at the return.  *)
(***************************************************************************)
C5_Shape ==
  /\ pc \in {"for", "plant", "next", "fill", "returned"} =>
       /\ Len(t) = args.n_steps /\ Len(T) = args.n_steps
       /\ Len(u) = args.n_steps /\ Len(e) = args.n_steps
       /\ T[1] = args.T_initial /\ t[1] = Zero
  /\ InLoopBody => k \in 0 .. args.n_steps - 2
  /\ pc = "returned" =>
       /\ k = args.n_steps - 1
       /\ Len(result.t) = args.n_steps /\ Len(result.T) = args.n_steps
       /\ Len(result.u) = args.n_steps /\ Len(result.e) = args.n_steps
       /\ result.T[1] = args.T_initial /\ result.t[1] = Zero

C5_Witness ==
  /\ pc = "returned" /\ Valid /\ args.n_steps = MaxSteps /\ k = MaxSteps - 1
  /\ ~IsZero(result.T[1]) /\ ~IsZero(result.t[args.n_steps])

(***************************************************************************)
(* C6, as claimed.  In a returned trace of a valid configuration t[0] = 0  *)
(* and t[k+1] - t[k] = dt for every k.                                     *)
(***************************************************************************)
C6_TimeDifferenceIsDt ==
  pc = "returned" /\ Valid =>
    /\ result.t[1] = Zero
    /\ \A i \in 1 .. args.n_steps - 1 :
         FSub(result.t[i + 1], result.t[i]) = args.dt

(***************************************************************************)
(* C6, amended.  In a returned trace of a valid configuration t[0] = 0,    *)
(* t[k+1] is the rounded sum t[k] + dt and time is strictly increasing.    *)
(***************************************************************************)
C6_TimeAdvances ==
  pc = "returned" /\ Valid =>
    /\ result.t[1] = Zero
    /\ \A i \in 1 .. args.n_steps - 1 :
         /\ result.t[i + 1] = FAdd(result.t[i], args.dt)
         /\ FLess(result.t[i], result.t[i + 1])

\* a returned trace with a time step that does not divide evenly in binary
C6_Witness ==
  /\ pc = "returned" /\ Valid /\ args.n_steps = MaxSteps
  /\ args.dt = Dec(3, 10)
  /\ \E i \in 1 .. args.n_steps - 1 :
       FSub(result.t[i + 1], result.t[i]) # args.dt

(***************************************************************************)
(* C7.  With the sliders' defaults (P only) and 301 samples the            *)
(* temperature never falls from one sample to the next, is below T_set at  *)
(* every sample, and ends within [20.5, 22.0] and above its first value.   *)
(***************************************************************************)
C7_PureP ==
  pc = "returned" /\ args = DefaultRun =>
    /\ \A i \in 1 .. 300 : FLeq(result.T[i], result.T[i + 1])
    /\ \A i \in 1 .. 301 : FLess(result.T[i], args.T_set)
    /\ FLeq(F(41, -1), result.T[301]) /\ FLeq(result.T[301], F(22, 0))
    /\ FLess(result.T[1], result.T[301])

\* the default run returned, never saturated, still short of the setpoint
C7_Witness ==
  /\ pc = "returned" /\ args = DefaultRun
  /\ FLess(Zero, result.e[301])
  /\ \A i \in 1 .. 301 : FLess(Zero, result.u[i]) /\ FLess(result.u[i], Hundred)

(***************************************************************************)
(* C8.  Every temperature after the first is the one before it plus        *)
(* ( -(T[k] - T_ambient)/tau + k_heat * (u[k]/100) ) * dt with u[k] the    *)
(* recorded, clipped signal; nothing clamps the result.                    *)
(***************************************************************************)
C8_PlantStep ==
  \A i \in 1 .. Len(T) - 1 :
    (i <= k \/ (i = k + 1 /\ pc = "next")) =>
      /\ T[i + 1] =
           FAdd(T[i],
                FMul(FAdd(FDiv(FNeg(FSub(T[i], args.T_ambient)), args.tau),
                          FMul(args.k_heat, FDiv(u[i], Hundred))),
                     args.dt))
      /\ IsNaN(u[i]) \/ InDutyRange(u[i])

\* a plant step just taken from a clipped signal, to a temperature outside
\* the range of the sliders
C8_Witness ==
  /\ pc = "next" /\ Valid /\ u[k + 1] # u_raw /\ u[k + 1] = Hundred
  /\ IsFinite(T[k + 2]) /\ FLess(F(30, 0), T[k + 2])

(***************************************************************************)
(* C9.  For a valid configuration the derivative of step 0 is 0 and the    *)
(* derivative of a step k >= 1 is (e[k] - e[k-1]) / dt; while the          *)
(* derivative and u_raw of a step are in use prev_error is still the error *)
(* of the step before, and once the step is over it is the step's error.   *)
(***************************************************************************)
C9_Derivative ==
  Valid =>
    /\ InLoopBody /\ k = 0 => derivative = Zero /\ prev_error = e[1]
    /\ InLoopBody /\ k >= 1 =>
         /\ derivative = FDiv(FSub(e[k + 1], e[k]), args.dt)
         /\ prev_error = e[k]
    /\ InLoopBody =>
         u_raw = FAdd(FAdd(FMul(args.Kp, e[k + 1]), FMul(args.Ki, integral)),
                      FMul(args.Kd, derivative))
    /\ pc = "for" /\ k >= 1 => prev_error = e[k] /\ prev_error = error

\* a step after the first with a derivative that is not 0 and an error that
\* differs from the one remembered
C9_Witness ==
  /\ Valid /\ pc = "plant" /\ k >= 1
  /\ IsFinite(derivative) /\ ~IsZero(derivative)
  /\ prev_error # error /\ FPos(args.Kd)

MinTemp ==
  IF FLess(args.T_initial, args.T_ambient) THEN args.T_initial
  ELSE args.T_ambient

\* the samples written so far
Written == IF pc = "alloc" THEN 0 ELSE IF pc = "next" THEN k + 2 ELSE k + 1

(***************************************************************************)
(* C10, as claimed.  With tau > 0, k_heat > 0 and 0 < dt <= tau every      *)
(* sample is at least min(T_initial, T_ambient).                           *)
(***************************************************************************)
C10_LowerBound ==
  Valid /\ FLeq(args.dt, args.tau) =>
    \A i \in 1 .. Min(Written, Len(T)) : FLeq(MinTemp, T[i])

(***************************************************************************)
(* C10, amended.  With tau > 0, k_heat > 0 and 0 < dt <= tau/2 every       *)
(* sample is at least min(T_initial, T_ambient).                           *)
(***************************************************************************)
C10_LowerBoundHalf ==
  Valid /\ FLeq(FMul(F(2, 0), args.dt), args.tau) =>
    \A i \in 1 .. Min(Written, Len(T)) : FLeq(MinTemp, T[i])

\* a room warmer than its surroundings cooling with the heater off
C10_Witness ==
  /\ Valid /\ FLeq(FMul(F(2, 0), args.dt), args.tau)
  /\ pc = "next" /\ k >= 1
  /\ FLess(args.T_ambient, args.T_initial)
  /\ u[k + 1] = Zero /\ FLess(u_raw, Zero)
  /\ FLess(T[k + 2], T[k + 1])

====
